---- MODULE Spec2Model ----
(***************************************************************************)
(* SignalLab: one execution of the Streamlit script app.py, which reads    *)
(* two discrete-time signals x(n) and h(n), plots them, decomposes x(n)    *)
(* into unit impulses, plots the shifted and scaled copies of h(n) and     *)
(* plots the convolution y(n) = x(n) * h(n).                               *)
(*                                                                         *)
(* Samples are modelled as integers (exact arithmetic); the index and axis *)
(* arithmetic is integer arithmetic in the program as well.  Sequences are *)
(* 1-based here and 0-based in the program: array position p of the        *)
(* program is element p + 1 of the sequence.                               *)
(***************************************************************************)
EXTENDS Integers, Sequences, FiniteSets, TLC

\* Bounds of the model.
MaxLen == 3
MaxStart == 2

\* Values a sample may take.
SampleValues == {1, 2}

\* Program constants.
YMAX == 10
XlimPad == 2

\* What the text input can parse to: any finite array, the empty one included.
Signals == UNION {[1..len -> SampleValues] : len \in 0..MaxLen}

\* What the number input can hold: any integer.
Starts == (0 - MaxStart)..MaxStart

VARIABLES
    emptyStem,        \* what ax.stem does with empty data: "untried", "raises", "renders"
    pc,               \* position of the script
    x, start_x, n_x, xlim_x,
    h, start_h, n_h0, xlim_h,
    start_y, end_y, global_min, global_max, global_ticks, global_xlim,
    y, n_y,
    pos,              \* position of the running for loop in its array
    latex,            \* the st.latex calls made so far
    figs              \* the figures handed to st.pyplot so far

vars == <<emptyStem, pc, x, start_x, n_x, xlim_x, h, start_h, n_h0, xlim_h,
          start_y, end_y, global_min, global_max, global_ticks, global_xlim,
          y, n_y, pos, latex, figs>>

----------------------------------------------------------------------------
\* NumPy and Python primitives the script uses.

\* np.arange(start, stop): start, start+1, ..., stop-1.
ArangeInclusive(start, stop) ==
    [k \in 1..(IF stop >= start THEN stop - start + 1 ELSE 0) |-> start + k - 1]
Arange(start, stop) ==
    [k \in 1..(IF stop > start THEN stop - start ELSE 0) |-> start + k - 1]

\* Whether array[p] is a valid Python index (negative p counts from the end).
IndexValid(array, p) == (0 - Len(array)) <= p /\ p < Len(array)

\* array[p] for a valid p.
PyIndex(array, p) == IF p >= 0 THEN array[p + 1] ELSE array[Len(array) + p + 1]

\* array + i and c * array, elementwise.
AddScalar(array, i) == [k \in 1..Len(array) |-> array[k] + i]
MulScalar(c, array) == [k \in 1..Len(array) |-> c * array[k]]

\* v[::-1]
Reverse(v) == [k \in 1..Len(v) |-> v[Len(v) - k + 1]]

\* min(a, b, c) and max(a, b, c) of Python.
Min3(a, b, c) ==
    LET m == IF b < a THEN b ELSE a
    IN  IF c < m THEN c ELSE m
Max3(a, b, c) ==
    LET m == IF b > a THEN b ELSE a
    IN  IF c > m THEN c ELSE m

\* One output sample of np.correlate(a, v, 'full'): the products a[n + k - M] * v[n]
\* summed for n = 1..upto in this fixed order, a taken as 0 outside its range.
RECURSIVE CorrelateTerm(_, _, _, _)
CorrelateTerm(a, v, k, upto) ==
    IF upto = 0 THEN 0
    ELSE LET p == upto + k - Len(v)
         IN  CorrelateTerm(a, v, k, upto - 1)
             + (IF p >= 1 /\ p <= Len(a) THEN a[p] * v[upto] ELSE 0)

\* np.correlate(a, v, mode='full')
Correlate(a, v) ==
    [k \in 1..(Len(a) + Len(v) - 1) |-> CorrelateTerm(a, v, k, Len(v))]

\* np.convolve raises ValueError when either array is empty.
ConvolveRaises(a, v) == Len(a) = 0 \/ Len(v) = 0

\* Mode 'same' in place of 'full': the central max(M, N) samples only.
ConvolveSame(a, v) ==
    LET full == IF Len(v) > Len(a) THEN Correlate(v, Reverse(a))
                ELSE Correlate(a, Reverse(v))
        short == IF Len(v) > Len(a) THEN Len(a) ELSE Len(v)
        long == IF Len(v) > Len(a) THEN Len(v) ELSE Len(a)
        skip == (short - 1) \div 2
    IN  SubSeq(full, skip + 1, skip + long)

\* The second array not reversed: a correlation in place of a convolution.
ConvolveNoFlip(a, v) ==
    IF Len(v) > Len(a) THEN Correlate(v, a) ELSE Correlate(a, v)

\* np.convolve(a, v), mode 'full': the longer array first, then the correlation
\* with the reversed second array.
Convolve(a, v) ==
    IF Len(v) > Len(a) THEN Correlate(v, Reverse(a)) ELSE Correlate(a, Reverse(v))

----------------------------------------------------------------------------
\* signallab/plotting.py

\* ax.stem(n_values, signal_values, ...): what the call can do.  With data it
\* renders; with no data it either raises or renders, the same at every call.
StemOutcomes(n_values) ==
    IF Len(n_values) > 0 THEN {"renders"}
    ELSE IF emptyStem = "untried" THEN {"raises", "renders"}
    ELSE {emptyStem}

\* emptyStem after a call of ax.stem with outcome o.
StemSeen(n_values, o) == IF Len(n_values) > 0 THEN emptyStem ELSE o

\* plot_signal: the figure it returns.
plot_signal(n_values, signal_values, title, xlim, ylim, xticks, color) ==
    [title |-> title, n |-> n_values, v |-> signal_values, xlim |-> xlim,
     ymax |-> ylim, xticks |-> xticks, grid |-> FALSE, color |-> color]

\* plot_signal_with_grid: the figure it returns.
plot_signal_with_grid(n_values, signal_values, xlim, ylim, xticks, color) ==
    [title |-> "", n |-> n_values, v |-> signal_values, xlim |-> xlim,
     ymax |-> ylim, xticks |-> xticks, grid |-> TRUE, color |-> color]

\* The formula shown above each step: x(i) f(n - i) for i >= 0, x(i) f(n + -i) otherwise.
Latex(f, i) ==
    IF i >= 0 THEN [f |-> f, i |-> i, op |-> "-", shift |-> i]
    ELSE [f |-> f, i |-> i, op |-> "+", shift |-> (0 - 1) * i]

\* The array position of x[i - start_x]: the coefficient of time index i.
CoefficientIndexNoOffset(i, sx) == i
CoefficientIndex(i, sx) == i - sx

\* coeff = x[i - start_x]
Coefficient(xs, i, sx) == PyIndex(xs, CoefficientIndex(i, sx))

\* n_hi = n_h0 + i
ShiftedIndicesMinus(nh0, i) == AddScalar(nh0, 0 - i)
ShiftedIndices(nh0, i) == AddScalar(nh0, i)

\* coeff * h
ScaledResponseUnscaled(coeff, hs) == hs
ScaledResponse(coeff, hs) == MulScalar(coeff, hs)

\* start_y and n_y of plot_convolution_result
ResultIndices(sx, sh, ys) == Arange(sx + sh, sx + sh + Len(ys))

----------------------------------------------------------------------------
\* app.py

SingleXlim(start, len) == <<start - XlimPad, start + len + XlimPad>>

StartY(sx, sh) == sx + sh
EndY(sy, lx, lh) == sy + (lx + lh - 2)
GlobalMinNoY(sx, sh, sy) == IF sh < sx THEN sh ELSE sx
GlobalMaxNoY(sx, lx, sh, lh, ey) ==
    IF sh + lh - 1 > sx + lx - 1 THEN sh + lh - 1 ELSE sx + lx - 1
GlobalMin(sx, sh, sy) == Min3(sx, sh, sy)
GlobalMax(sx, lx, sh, lh, ey) == Max3(sx + lx - 1, sh + lh - 1, ey)
GlobalTicks(gmin, gmax) == Arange(gmin, gmax + 1)
GlobalXlim(gmin, gmax) == <<gmin - XlimPad, gmax + XlimPad>>

Init ==
    /\ emptyStem = "untried"
    /\ pc = "read_x"
    /\ x = <<>> /\ start_x = 0 /\ n_x = <<>> /\ xlim_x = <<0, 0>>
    /\ h = <<>> /\ start_h = 0 /\ n_h0 = <<>> /\ xlim_h = <<0, 0>>
    /\ start_y = 0 /\ end_y = 0 /\ global_min = 0 /\ global_max = 0
    /\ global_ticks = <<>> /\ global_xlim = <<0, 0>>
    /\ y = <<>> /\ n_y = <<>>
    /\ pos = 1
    /\ latex = <<>>
    /\ figs = <<>>

\* x = np.fromstring(...); start_x = int(...); n_x = np.arange(start_x, start_x + len(x))
ReadX ==
    /\ pc = "read_x"
    /\ \E xs \in Signals, sx \in Starts :
        /\ x' = xs
        /\ start_x' = sx
        /\ n_x' = Arange(sx, sx + Len(xs))
    /\ pc' = "plot_x"
    /\ UNCHANGED <<emptyStem, xlim_x, h, start_h, n_h0, xlim_h, start_y, end_y,
                   global_min, global_max, global_ticks, global_xlim, y, n_y, pos,
                   latex, figs>>

\* xlim_x = ...; fig = plot_signal(n_x, x, "x(n)", xlim_x, YMAX, n_x); st.pyplot(fig)
PlotX ==
    /\ pc = "plot_x"
    /\ xlim_x' = SingleXlim(start_x, Len(x))
    /\ \E o \in StemOutcomes(n_x) :
        /\ emptyStem' = StemSeen(n_x, o)
        /\ IF o = "raises"
           THEN pc' = "error" /\ figs' = figs
           ELSE /\ figs' = Append(figs,
                     plot_signal(n_x, x, "x(n)", xlim_x', YMAX, n_x, "C0"))
                /\ pc' = "decompose"
    /\ pos' = 1
    /\ UNCHANGED <<x, start_x, n_x, h, start_h, n_h0, xlim_h, start_y,
                   end_y, global_min, global_max, global_ticks, global_xlim, y, n_y,
                   latex>>

\* One iteration of "for i in n_x" of the signal decomposition.
DecomposeStep ==
    /\ pc = "decompose"
    /\ pos <= Len(n_x)
    /\ LET i == n_x[pos]
       IN  /\ latex' = Append(latex, Latex("delta", i))
           /\ IF IndexValid(x, CoefficientIndex(i, start_x))
              THEN /\ figs' = Append(figs,
                        plot_signal_with_grid(<<i>>, <<Coefficient(x, i, start_x)>>,
                                              xlim_x, YMAX, n_x, "C0"))
                   /\ pc' = "decompose"
              ELSE pc' = "error" /\ figs' = figs
    /\ pos' = pos + 1
    /\ UNCHANGED <<emptyStem, x, start_x, n_x, xlim_x, h, start_h, n_h0, xlim_h,
                   start_y, end_y, global_min, global_max, global_ticks, global_xlim,
                   y, n_y>>

\* The decomposition loop is exhausted.
DecomposeEnd ==
    /\ pc = "decompose"
    /\ pos > Len(n_x)
    /\ pc' = "read_h"
    /\ UNCHANGED <<emptyStem, x, start_x, n_x, xlim_x, h, start_h, n_h0, xlim_h,
                   start_y, end_y, global_min, global_max, global_ticks, global_xlim,
                   y, n_y, pos, latex, figs>>

\* h = np.fromstring(...); start_h = int(...); n_h0 = np.arange(start_h, start_h + len(h))
ReadH ==
    /\ pc = "read_h"
    /\ \E hs \in Signals, sh \in Starts :
        /\ h' = hs
        /\ start_h' = sh
        /\ n_h0' = Arange(sh, sh + Len(hs))
    /\ pc' = "plot_h"
    /\ UNCHANGED <<emptyStem, x, start_x, n_x, xlim_x, xlim_h, start_y, end_y,
                   global_min, global_max, global_ticks, global_xlim, y, n_y, pos,
                   latex, figs>>

\* xlim_h = ...; fig = plot_signal(n_h0, h, "h(n)", xlim_h, YMAX, n_h0, color='C1')
PlotH ==
    /\ pc = "plot_h"
    /\ xlim_h' = SingleXlim(start_h, Len(h))
    /\ \E o \in StemOutcomes(n_h0) :
        /\ emptyStem' = StemSeen(n_h0, o)
        /\ IF o = "raises"
           THEN pc' = "error" /\ figs' = figs
           ELSE /\ figs' = Append(figs,
                     plot_signal(n_h0, h, "h(n)", xlim_h', YMAX, n_h0, "C1"))
                /\ pc' = "global_axis"
    /\ UNCHANGED <<x, start_x, n_x, xlim_x, h, start_h, n_h0, start_y,
                   end_y, global_min, global_max, global_ticks, global_xlim, y, n_y,
                   pos, latex>>

\* start_y, end_y, global_min, global_max, global_ticks, global_xlim
GlobalAxis ==
    /\ pc = "global_axis"
    /\ start_y' = StartY(start_x, start_h)
    /\ end_y' = EndY(start_y', Len(x), Len(h))
    /\ global_min' = GlobalMin(start_x, start_h, start_y')
    /\ global_max' = GlobalMax(start_x, Len(x), start_h, Len(h), end_y')
    /\ global_ticks' = GlobalTicks(global_min', global_max')
    /\ global_xlim' = GlobalXlim(global_min', global_max')
    /\ pos' = 1
    /\ pc' = "shifted"
    /\ UNCHANGED <<emptyStem, x, start_x, n_x, xlim_x, h, start_h, n_h0, xlim_h,
                   y, n_y, latex, figs>>

\* One iteration of "for i in n_x" of plot_shifted_impulse_responses.
ShiftedStep ==
    /\ pc = "shifted"
    /\ pos <= Len(n_x)
    /\ LET i == n_x[pos]
       IN  IF ~IndexValid(x, CoefficientIndex(i, start_x))
           THEN pc' = "error" /\ UNCHANGED <<figs, latex, emptyStem>>
           ELSE /\ latex' = Append(latex, Latex("h", i))
                /\ \E o \in StemOutcomes(ShiftedIndices(n_h0, i)) :
                    /\ emptyStem' = StemSeen(ShiftedIndices(n_h0, i), o)
                    /\ IF o = "raises"
                       THEN pc' = "error" /\ figs' = figs
                       ELSE /\ figs' = Append(figs,
                                 plot_signal_with_grid(
                                     ShiftedIndices(n_h0, i),
                                     ScaledResponse(Coefficient(x, i, start_x), h),
                                     global_xlim, YMAX, global_ticks, "C1"))
                            /\ pc' = "shifted"
    /\ pos' = pos + 1
    /\ UNCHANGED <<x, start_x, n_x, xlim_x, h, start_h, n_h0, xlim_h,
                   start_y, end_y, global_min, global_max, global_ticks, global_xlim,
                   y, n_y>>

\* The loop of plot_shifted_impulse_responses is exhausted.
ShiftedEnd ==
    /\ pc = "shifted"
    /\ pos > Len(n_x)
    /\ pc' = "result"
    /\ UNCHANGED <<emptyStem, x, start_x, n_x, xlim_x, h, start_h, n_h0, xlim_h,
                   start_y, end_y, global_min, global_max, global_ticks, global_xlim,
                   y, n_y, pos, latex, figs>>

\* plot_convolution_result(x, h, start_x, start_h, global_xlim, YMAX, global_ticks)
PlotConvolutionResult ==
    /\ pc = "result"
    /\ IF ConvolveRaises(x, h)
       THEN pc' = "error" /\ UNCHANGED <<y, n_y, figs>>
       ELSE /\ y' = Convolve(x, h)
            /\ n_y' = ResultIndices(start_x, start_h, y')
            /\ figs' = Append(figs,
                  plot_signal(n_y', y', "y(n) = x(n) * h(n)", global_xlim, YMAX,
                              global_ticks, "C3"))
            /\ pc' = "done"
    /\ UNCHANGED <<emptyStem, x, start_x, n_x, xlim_x, h, start_h, n_h0, xlim_h,
                   start_y, end_y, global_min, global_max, global_ticks, global_xlim,
                   pos, latex>>

Next ==
    \/ ReadX
    \/ PlotX
    \/ DecomposeStep
    \/ DecomposeEnd
    \/ ReadH
    \/ PlotH
    \/ GlobalAxis
    \/ ShiftedStep
    \/ ShiftedEnd
    \/ PlotConvolutionResult

Spec == Init /\ [][Next]_vars

----------------------------------------------------------------------------
\* What the rendered page shows.

Range(s) == {s[k] : k \in 1..Len(s)}

IsXPlot(f) == f.title = "x(n)"
IsHPlot(f) == f.title = "h(n)"
IsImpulse(f) == f.grid /\ f.color = "C0"
IsShifted(f) == f.grid /\ f.color = "C1"
IsResult(f) == f.color = "C3"
IsDeltaLatex(l) == l.f = "delta"
IsHLatex(l) == l.f = "h"

ImpulseFigs == SelectSeq(figs, IsImpulse)
ShiftedFigs == SelectSeq(figs, IsShifted)
ResultFigs == SelectSeq(figs, IsResult)
DeltaLatex == SelectSeq(latex, IsDeltaLatex)
HLatex == SelectSeq(latex, IsHLatex)

\* The value a figure shows at time index t: its stem there, zero elsewhere.
ValueAt(f, t) ==
    IF \E m \in 1..Len(f.n) : f.n[m] = t
    THEN f.v[CHOOSE m \in 1..Len(f.n) : f.n[m] = t]
    ELSE 0

\* The sum at time index t of the figures fs.
RECURSIVE SumAt(_, _)
SumAt(fs, t) ==
    IF Len(fs) = 0 THEN 0 ELSE ValueAt(Head(fs), t) + SumAt(Tail(fs), t)

NonEmptyInputs == Len(x) >= 1 /\ Len(h) >= 1
AxisPlanned == pc \in {"shifted", "result", "done"}
Decomposed == pc \in {"read_h", "plot_h", "global_axis", "shifted", "result", "done"}

\* C1: once the pass is done, at every index of the global axis (and at every
\* index any response or the result is drawn at) the shifted and scaled responses
\* sum to the value the convolution result plot shows there.
ConsistencyLaw ==
    pc = "done" =>
        LET idx == Range(global_ticks) \cup Range(n_y)
                   \cup UNION {Range(ShiftedFigs[k].n) : k \in 1..Len(ShiftedFigs)}
                   \cup ((global_min - XlimPad)..(global_max + XlimPad))
        IN  /\ Len(ShiftedFigs) = Len(x)
            /\ Len(ResultFigs) = 1
            /\ \A t \in idx : SumAt(ShiftedFigs, t) = ValueAt(ResultFigs[1], t)

ConsistencyWitness ==
    /\ pc = "done"
    /\ Len(x) = 3 /\ Len(h) = 2
    /\ start_x < 0 /\ start_h > 0
    /\ x[1] # x[2] /\ h[1] # h[2]

\* C2: the result has len(x) + len(h) - 1 samples, starts at start_x + start_h and
\* ends at the end_y the global axis was planned with; x = [1] at 2 with
\* h = [1,2,1] at 0 gives y = [1,2,1] on indices 2..4.
LengthLaw ==
    pc = "done" =>
        /\ Len(y) = Len(x) + Len(h) - 1
        /\ Len(n_y) = Len(y)
        /\ n_y[1] = start_x + start_h
        /\ n_y[Len(n_y)] = end_y
        /\ (x = <<1>> /\ start_x = 2 /\ h = <<1, 2, 1>> /\ start_h = 0)
              => (y = <<1, 2, 1>> /\ n_y = <<2, 3, 4>>)

LengthWitness ==
    /\ pc = "done"
    /\ x = <<1>> /\ start_x = 2 /\ h = <<1, 2, 1>> /\ start_h = 0

\* C3: the result computed for (x, h, sx, sh) has the values and the time indices
\* of the one computed for (h, x, sh, sx), and starts at sx + sh.
Commutativity ==
    pc = "done" =>
        /\ y = Convolve(h, x)
        /\ n_y = ResultIndices(start_h, start_x, Convolve(h, x))
        /\ n_y[1] = start_x + start_h

CommutativityWitness ==
    /\ pc = "done"
    /\ Len(x) = Len(h) /\ x # h /\ start_x # start_h
    /\ y # Reverse(y)

\* C4: global_min is the least of the three starts, global_max the greatest of the
\* three ends, the global ticks are the contiguous range between them and hold
\* every index of x's span, of h's span and of the output's span.
AxisCoverage ==
    (AxisPlanned /\ NonEmptyInputs) =>
        LET starts == {start_x, start_h, start_x + start_h}
            ends == {start_x + Len(x) - 1, start_h + Len(h) - 1,
                     start_x + start_h + Len(x) + Len(h) - 2}
        IN  /\ global_min \in starts /\ \A s \in starts : global_min <= s
            /\ global_max \in ends /\ \A e \in ends : e <= global_max
            /\ Len(global_ticks) = global_max - global_min + 1
            /\ \A k \in 1..Len(global_ticks) : global_ticks[k] = global_min + k - 1
            /\ \A k \in 0..(Len(x) - 1) : start_x + k \in Range(global_ticks)
            /\ \A k \in 0..(Len(h) - 1) : start_h + k \in Range(global_ticks)
            /\ \A k \in 0..(Len(x) + Len(h) - 2) :
                  start_x + start_h + k \in Range(global_ticks)

AxisCoverageWitness ==
    /\ AxisPlanned /\ NonEmptyInputs
    /\ global_min = start_x + start_h
    /\ global_min < start_x /\ global_min < start_h
    /\ global_max # end_y

\* C5: the plot of x (and of h) has one tick per sample, the contiguous integers
\* start .. start + len - 1, and sample k is drawn at tick start + k.
SingleAxis ==
    \A j \in 1..Len(figs) :
        LET f == figs[j]
        IN  /\ (IsXPlot(f) /\ Len(x) >= 1) =>
                  /\ Len(f.xticks) = Len(x)
                  /\ \A k \in 1..Len(f.xticks) : f.xticks[k] = start_x + k - 1
                  /\ f.n = f.xticks
                  /\ f.v = x
            /\ (IsHPlot(f) /\ Len(h) >= 1) =>
                  /\ Len(f.xticks) = Len(h)
                  /\ \A k \in 1..Len(f.xticks) : f.xticks[k] = start_h + k - 1
                  /\ f.n = f.xticks
                  /\ f.v = h

SingleAxisWitness ==
    /\ pc = "global_axis"
    /\ Len(x) = 1 /\ Len(h) = 3
    /\ start_x < 0 /\ start_h > 0
    /\ \E j \in 1..Len(figs) : IsHPlot(figs[j])

\* C6: the plot of x (and of h) leaves 2 samples of margin on each side: the lower
\* limit is the first index - 2 and the upper limit is the last index + 2.
SinglePadding ==
    \A j \in 1..Len(figs) :
        LET f == figs[j]
        IN  ((IsXPlot(f) \/ IsHPlot(f)) /\ Len(f.n) >= 1) =>
                /\ f.xlim[1] = f.n[1] - 2
                /\ f.xlim[2] = f.n[Len(f.n)] + 2

\* C7: the decomposition renders len(x) impulses in increasing index order, the
\* k-th being (start_x + k, x[k]); the array position fetched is k, never negative
\* or out of range; the convolution-steps loop visits the same pairs in the same order.
Decomposition ==
    /\ (Decomposed /\ Len(x) >= 1) =>
          /\ Len(ImpulseFigs) = Len(x)
          /\ Len(DeltaLatex) = Len(x)
          /\ \A k \in 1..Len(x) :
                /\ ImpulseFigs[k].n = <<start_x + k - 1>>
                /\ ImpulseFigs[k].v = <<x[k]>>
                /\ DeltaLatex[k].i = start_x + k - 1
                /\ CoefficientIndex(n_x[k], start_x) = k - 1
    /\ (pc = "error" /\ Len(x) >= 1) => (Len(ImpulseFigs) = Len(x) /\ Len(h) = 0)
    /\ (pc \in {"result", "done"} /\ NonEmptyInputs) =>
          /\ Len(ShiftedFigs) = Len(x)
          /\ Len(HLatex) = Len(x)
          /\ \A k \in 1..Len(x) :
                /\ HLatex[k].i = DeltaLatex[k].i
                /\ ShiftedFigs[k].v = MulScalar(ImpulseFigs[k].v[1], h)

DecompositionWitness ==
    /\ pc = "done"
    /\ start_x < 0 /\ Len(x) = 3 /\ x[1] # x[3]

\* C8: the response plotted for time index i has len(h) samples, starts at
\* start_h + i and its k-th sample is x[i - start_x] * h[k].
ShiftAndScale ==
    \A k \in 1..Len(ShiftedFigs) :
        LET f == ShiftedFigs[k]
            i == HLatex[k].i
            c == x[i - start_x + 1]
        IN  /\ Len(f.n) = Len(h) /\ Len(f.v) = Len(h)
            /\ \A m \in 1..Len(h) :
                  /\ f.n[m] = start_h + i + m - 1
                  /\ f.v[m] = c * h[m]

ShiftAndScaleWitness ==
    /\ pc = "done"
    /\ start_x = 0 - 1 /\ Len(x) = 3 /\ x[1] = 2
    /\ Len(h) >= 2 /\ start_h # 0

\* C9: a pass whose x or h is empty renders no plot at all: a pass that ends in
\* an error has shown nothing, and a pass that completes had two non-empty signals.
DegenerateAllOrNothing ==
    /\ pc = "error" => figs = <<>>
    /\ pc = "done" => NonEmptyInputs

\* C10: every stem of every shifted response and of the result is on a global
\* tick and strictly inside global_xlim = (global_min - 2, global_max + 2).
OnSharedAxis ==
    \A j \in 1..Len(figs) :
        LET f == figs[j]
        IN  (IsShifted(f) \/ IsResult(f)) =>
                /\ f.xlim = <<global_min - 2, global_max + 2>>
                /\ f.xticks = global_ticks
                /\ \A m \in 1..Len(f.n) :
                      /\ f.n[m] \in Range(f.xticks)
                      /\ f.xlim[1] < f.n[m] /\ f.n[m] < f.xlim[2]

OnSharedAxisWitness ==
    /\ pc = "done"
    /\ global_max = end_y
    /\ end_y > start_x + Len(x) - 1 /\ end_y > start_h + Len(h) - 1
    /\ global_min < start_x /\ global_min < start_h

====
